---- MODULE Spec2Model ----
(***************************************************************************)
(* Model of the two utilities of the repository:                           *)
(*   src/security/auth.py   get_current_user, the development identity     *)
(*                          provider;                                      *)
(*   tests/test_docker.py   run, wait_for and test_docker_container_smoke, *)
(*                          the container smoke test.                      *)
(* The two share no state.  Spec is the smoke test, SpecLive the smoke     *)
(* test with its statements executed fairly, SpecAuth the identity         *)
(* provider.                                                               *)
(***************************************************************************)
EXTENDS Integers, Sequences, FiniteSets, TLC

VARIABLES
    \* ---- tests/test_docker.py ----
    pc,          \* line of test_docker_container_smoke / wait_for about to run
    fs,          \* the project root: file name -> content, for the files present
    fs0,         \* the project root as it was when the test started
    log,         \* the file, toolchain and polling operations performed, in order
    outcome,     \* how the test ended: "none" while it runs
    exc,         \* the exception in flight while the finally block runs (<<>>: none)
    url,         \* wait_for: the url argument
    now,         \* wait_for: time.time(), in seconds since the call was entered
    deadline,    \* wait_for: the local deadline, on the same clock
    last_err,    \* wait_for: the local last_err (<<>>: None, <<k>>: error of attempt k)
    resp,        \* wait_for: what the most recent requests.get did (<<>>: no attempt yet)
    attempts,    \* wait_for: number of requests.get issued by this call
    sleeps,      \* wait_for: number of time.sleep(2) performed by this call
    all_raised,  \* wait_for: every requests.get of this call raised so far
    last_raised, \* wait_for: number of the latest attempt of this call that raised (0: none)
    container,   \* the container named CONTAINER_NAME: "none", "running" or "exited"
    \* ---- src/security/auth.py ----
    environ,     \* os.environ: variable name -> value, for the variables set
    auth_pc,     \* per caller: "idle", "L11" (coroutine entered), "returned", "raised"
    auth_arg,    \* per caller: the authorization argument (<<>>: None)
    auth_ret     \* per caller: the returned record (<<>>: nothing returned yet)

smoke_vars == <<pc, fs, fs0, log, outcome, exc, url, now, deadline, last_err,
                resp, attempts, sleeps, all_raised, last_raised, container>>
auth_vars == <<environ, auth_pc, auth_arg, auth_ret>>
vars == <<smoke_vars, auth_vars>>

None == <<>>

(***************************************************************************)
(* Program constants                                                       *)
(***************************************************************************)
IMAGE_TAG == "open-deep-research:test"
CONTAINER_NAME == "open-deep-research-test"
PORT == 2024
HEALTH_TIMEOUT == 90
DOCS_TIMEOUT == 30
POLL_INTERVAL == 2
REQUEST_TIMEOUT == 5
SERVER_ERROR == 500
ENV_FILE == ".env"
TEMPLATE == "env.example"
DEV_USER_ID == "DEV_USER_ID"
DEFAULT_IDENTITY == "dev-user"

(***************************************************************************)
(* Bounds and input sets                                                   *)
(***************************************************************************)
NumCallers == 2
Callers == 1..NumCallers
\* values DEV_USER_ID can be set to; the empty string is a value, not "unset"
EnvValues == {"", "alice", "dev-user"}
\* authorization arguments: None, empty, well-formed, malformed
Credentials == {None, <<"">>, <<"Bearer xyz">>, <<"%%garbage">>}
\* exit codes of the container toolchain
ExitCodes == {0, 1}
\* status codes the probed endpoints answer with
StatusCodes == {200, 404, 499, 500, 503}
\* how long one requests.get takes: answers at once, or runs into its timeout
GetDurations == {0, REQUEST_TIMEOUT}
\* contents of the environment file and of the template, when present
EnvContents == {"KEY=local"}
TemplateContents == {"KEY=example"}

(***************************************************************************)
(* src/security/auth.py                                                    *)
(***************************************************************************)
\* os.environ.get(key) or default: an empty value falls back too
environ_get_or_default(env, key, default) ==
    IF key \in DOMAIN env /\ env[key] # "" THEN env[key] ELSE default

\* os.environ.get(key, default)
environ_get(env, key, default) ==
    IF key \in DOMAIN env THEN env[key] ELSE default

\* os.environ[key] in place of os.environ.get: KeyError when the variable is unset
environ_subscript_raises(env, key) == key \notin DOMAIN env

\* os.environ.get(key, default) raises for no key, set or unset
environ_get_raises(env, key) == FALSE

\* the record get_current_user returns
get_current_user_result(env, authorization) ==
    [identity |-> environ_get(env, DEV_USER_ID, DEFAULT_IDENTITY)]

\* the framework calls the hook with the request's authorization value
auth_call(c, authorization) ==
    /\ auth_pc[c] = "idle"
    /\ auth_pc' = [auth_pc EXCEPT ![c] = "L11"]
    /\ auth_arg' = [auth_arg EXCEPT ![c] = authorization]
    /\ auth_ret' = [auth_ret EXCEPT ![c] = None]
    /\ UNCHANGED environ

\* the identity is cached in the environment: os.environ.setdefault(key, default)
get_current_user_setdefault(c) ==
    /\ auth_pc[c] = "L11"
    /\ environ' = [k \in {DEV_USER_ID} |-> environ_get(environ, DEV_USER_ID, DEFAULT_IDENTITY)]
    /\ auth_ret' = [auth_ret EXCEPT ![c] = <<get_current_user_result(environ, auth_arg[c])>>]
    /\ auth_pc' = [auth_pc EXCEPT ![c] = "returned"]
    /\ UNCHANGED auth_arg

\* line 11: the body of get_current_user; the coroutine has no await, so it
\* runs from entry to return without yielding to another request
get_current_user(c) ==
    /\ auth_pc[c] = "L11"
    /\ IF environ_get_raises(environ, DEV_USER_ID)
       THEN /\ auth_pc' = [auth_pc EXCEPT ![c] = "raised"]
            /\ UNCHANGED auth_ret
       ELSE /\ auth_ret' = [auth_ret EXCEPT ![c] =
                                <<get_current_user_result(environ, auth_arg[c])>>]
            /\ auth_pc' = [auth_pc EXCEPT ![c] = "returned"]
    /\ UNCHANGED <<environ, auth_arg>>

\* the framework consumes the record; the caller can serve another request
auth_done(c) ==
    /\ auth_pc[c] = "returned"
    /\ auth_pc' = [auth_pc EXCEPT ![c] = "idle"]
    /\ UNCHANGED <<environ, auth_arg, auth_ret>>

\* the process environment is changed from outside the hook
setenv(v) ==
    /\ environ' = [k \in {DEV_USER_ID} |-> v]
    /\ environ' # environ
    /\ UNCHANGED <<auth_pc, auth_arg, auth_ret>>

unsetenv ==
    /\ DEV_USER_ID \in DOMAIN environ
    /\ environ' = <<>>
    /\ UNCHANGED <<auth_pc, auth_arg, auth_ret>>

(***************************************************************************)
(* tests/test_docker.py                                                    *)
(***************************************************************************)
Event(ev, arg, rc) == [ev |-> ev, arg |-> arg, rc |-> rc]

\* run(cmd) without check=True
run_raises_unchecked(rc) == FALSE

\* run(cmd): subprocess.run(cmd, check=True) raises on a non-zero exit
run_raises(rc) == rc # 0

\* the cleanup commands run with check=True
unchecked_raises_checked(rc) == rc # 0

\* subprocess.run(cmd, check=False) never raises on the exit code
unchecked_raises(rc) == FALSE

\* resp.ok in place of the comparison with 500
status_ok_strict(status) == status < 400

\* line 24: resp.status_code < 500
status_ok(status) == status < SERVER_ERROR

\* what one requests.get can do: answer with a status, or raise
Responses ==
    [kind : {"resp"}, status : StatusCodes] \cup {[kind |-> "exc", status |-> 0]}

\* last_err keeps the first error in place of the latest
next_last_err_first(r, old, n) ==
    IF r.kind = "exc" /\ old = None THEN <<n>> ELSE old

\* last_err set for a 5xx answer as well as for an exception
next_last_err_any(r, old, n) == <<n>>

\* lines 26-27: last_err after attempt number n ended as r
next_last_err(r, old, n) ==
    IF r.kind = "exc" THEN <<n>> ELSE old

\* lines 50-60: the argument list of the container start
RUN_CMD ==
    <<"docker", "run", "--name", CONTAINER_NAME, "--env-file", ENV_FILE,
      "-p", "2024:2024", IMAGE_TAG>>

\* docker run detaches only when asked to; otherwise it stays attached and
\* returns when the container's process has exited
Detached(cmd) == \E i \in 1..Len(cmd) : cmd[i] \in {"-d", "--detach"}

\* docker rm -f CONTAINER_NAME: exit 0 leaves no container of that name, a
\* failed removal leaves what was there
docker_rm(c, rc) == IF rc = 0 THEN "none" ELSE c

\* docker run --name CONTAINER_NAME: the exit codes it can return and the
\* state it leaves the named container in.  The name is refused while a
\* container holds it.
docker_run(cmd, c) ==
    IF c # "none" THEN {[rc |-> 1, container |-> c]}
    ELSE IF Detached(cmd)
         THEN {[rc |-> 0, container |-> "running"], [rc |-> 1, container |-> "none"]}
         ELSE {[rc |-> 0, container |-> "exited"], [rc |-> 1, container |-> "exited"],
               [rc |-> 1, container |-> "none"]}

\* a container left running by an earlier run stops on its own
container_exits ==
    /\ container = "running"
    /\ pc # "done"
    /\ container' = "exited"
    /\ UNCHANGED <<pc, fs, fs0, log, outcome, exc, url, now, deadline, last_err, resp,
                   attempts, sleeps, all_raised, last_raised, auth_vars>>

\* the template is copied whether or not the environment file exists
smoke_env_exists_always ==
    /\ pc = "L37"
    /\ log' = Append(log, Event("exists", ENV_FILE, IF ENV_FILE \in DOMAIN fs THEN 1 ELSE 0))
    /\ pc' = "L39"
    /\ UNCHANGED <<fs, fs0, outcome, exc, url, now, deadline, last_err, resp,
                   attempts, sleeps, all_raised, last_raised, container,
                   auth_vars>>

\* line 37: env_file.exists()
smoke_env_exists ==
    /\ pc = "L37"
    /\ log' = Append(log, Event("exists", ENV_FILE, IF ENV_FILE \in DOMAIN fs THEN 1 ELSE 0))
    /\ pc' = IF ENV_FILE \in DOMAIN fs THEN "L44" ELSE "L39"
    /\ UNCHANGED <<fs, fs0, outcome, exc, url, now, deadline, last_err, resp,
                   attempts, sleeps, all_raised, last_raised, container,
                   auth_vars>>

\* a missing template is skipped in place of raising
smoke_template_exists_unchecked ==
    /\ pc = "L39"
    /\ log' = Append(log, Event("exists", TEMPLATE, IF TEMPLATE \in DOMAIN fs THEN 1 ELSE 0))
    /\ pc' = IF TEMPLATE \in DOMAIN fs THEN "L41" ELSE "L44"
    /\ UNCHANGED <<fs, fs0, outcome, exc, url, now, deadline, last_err, resp,
                   attempts, sleeps, all_raised, last_raised, container,
                   auth_vars>>

\* lines 39-40: template.exists(), FileNotFoundError when it does not
smoke_template_exists ==
    /\ pc = "L39"
    /\ log' = Append(log, Event("exists", TEMPLATE, IF TEMPLATE \in DOMAIN fs THEN 1 ELSE 0))
    /\ IF TEMPLATE \in DOMAIN fs
       THEN pc' = "L41" /\ UNCHANGED outcome
       ELSE pc' = "done" /\ outcome' = "FileNotFoundError"
    /\ UNCHANGED <<fs, fs0, exc, url, now, deadline, last_err, resp,
                   attempts, sleeps, all_raised, last_raised, container,
                   auth_vars>>

\* line 41: env_file.write_text(template.read_text())
smoke_copy_template ==
    /\ pc = "L41"
    /\ fs' = [f \in DOMAIN fs \cup {ENV_FILE} |-> IF f = ENV_FILE THEN fs[TEMPLATE] ELSE fs[f]]
    /\ log' = log \o <<Event("read_text", TEMPLATE, 0), Event("write_text", ENV_FILE, 0)>>
    /\ pc' = "L44"
    /\ UNCHANGED <<fs0, outcome, exc, url, now, deadline, last_err, resp,
                   attempts, sleeps, all_raised, last_raised, container,
                   auth_vars>>

\* line 44: run(["docker", "build", ...])
smoke_build ==
    /\ pc = "L44"
    /\ \E rc \in ExitCodes :
        /\ log' = Append(log, Event("docker", "build", rc))
        /\ IF run_raises(rc)
           THEN pc' = "done" /\ outcome' = "CalledProcessError"
           ELSE pc' = "L47" /\ UNCHANGED outcome
    /\ UNCHANGED <<fs, fs0, exc, url, now, deadline, last_err, resp,
                   attempts, sleeps, all_raised, last_raised, container,
                   auth_vars>>

\* line 47: subprocess.run(["docker", "rm", "-f", CONTAINER_NAME], check=False)
smoke_preclean ==
    /\ pc = "L47"
    /\ \E rc \in ExitCodes :
        /\ log' = Append(log, Event("docker", "rm", rc))
        /\ container' = docker_rm(container, rc)
        /\ IF unchecked_raises(rc)
           THEN pc' = "done" /\ outcome' = "CalledProcessError"
           ELSE pc' = "L50" /\ UNCHANGED outcome
    /\ UNCHANGED <<fs, fs0, exc, url, now, deadline, last_err, resp,
                   attempts, sleeps, all_raised, last_raised,
                   auth_vars>>

\* lines 50-60: run(["docker", "run", "--name", CONTAINER_NAME, ...])
smoke_run ==
    /\ pc = "L50"
    /\ \E o \in docker_run(RUN_CMD, container) :
        /\ log' = Append(log, Event("docker", "run", o.rc))
        /\ container' = o.container
        /\ IF run_raises(o.rc)
           THEN pc' = "done" /\ outcome' = "CalledProcessError"
           ELSE pc' = "L63" /\ UNCHANGED outcome
    /\ UNCHANGED <<fs, fs0, exc, url, now, deadline, last_err, resp,
                   attempts, sleeps, all_raised, last_raised,
                   auth_vars>>

\* lines 18-20: wait_for is entered; the clock is read from the entry on
wait_for_enter(u, timeout_seconds) ==
    /\ url' = u
    /\ now' = 0
    /\ deadline' = 0 + timeout_seconds
    /\ last_err' = None
    /\ resp' = None
    /\ attempts' = 0
    /\ sleeps' = 0
    /\ all_raised' = TRUE
    /\ last_raised' = 0
    /\ log' = Append(log, Event("call wait_for", u, 0))
    /\ pc' = "L21"

\* line 63: wait_for(".../health", timeout_seconds=90)
smoke_wait_health ==
    /\ pc = "L63"
    /\ wait_for_enter("/health", HEALTH_TIMEOUT)
    /\ UNCHANGED <<fs, fs0, outcome, exc, container, auth_vars>>

\* line 64: wait_for(".../docs", timeout_seconds=30)
smoke_wait_docs ==
    /\ pc = "L64"
    /\ wait_for_enter("/docs", DOCS_TIMEOUT)
    /\ UNCHANGED <<fs, fs0, outcome, exc, container, auth_vars>>

\* while time.time() <= deadline: one more attempt at the deadline itself
wait_for_loop_inclusive ==
    /\ pc = "L21"
    /\ pc' = IF now <= deadline THEN "L23" ELSE "L29"
    /\ UNCHANGED <<fs, fs0, log, outcome, exc, url, now, deadline, last_err, resp,
                   attempts, sleeps, all_raised, last_raised, container,
                   auth_vars>>

\* line 21: while time.time() < deadline
wait_for_loop ==
    /\ pc = "L21"
    /\ pc' = IF now < deadline THEN "L23" ELSE "L29"
    /\ UNCHANGED <<fs, fs0, log, outcome, exc, url, now, deadline, last_err, resp,
                   attempts, sleeps, all_raised, last_raised, container,
                   auth_vars>>

\* the docs poll left out: teardown follows the health poll
wait_for_return_pc_skip(u) == "L66"

\* where wait_for returns to: the statement after the call
wait_for_return_pc(u) == IF u = "/health" THEN "L64" ELSE "L66"

\* the sleep in a finally clause of the try: it runs before the return too
wait_for_get_sleep_always ==
    /\ pc = "L23"
    /\ \E r \in Responses, d \in GetDurations :
        /\ attempts' = attempts + 1
        /\ resp' = <<r>>
        /\ all_raised' = (all_raised /\ r.kind = "exc")
        /\ last_raised' = IF r.kind = "exc" THEN attempts + 1 ELSE last_raised
        /\ IF r.kind = "resp" /\ status_ok(r.status)
           THEN /\ pc' = wait_for_return_pc(url)
                /\ log' = Append(log, Event("return wait_for", url, 0))
                /\ now' = now + d + POLL_INTERVAL
                /\ sleeps' = sleeps + 1
                /\ UNCHANGED last_err
           ELSE /\ pc' = "L28"
                /\ now' = now + d
                /\ last_err' = next_last_err(r, last_err, attempts + 1)
                /\ UNCHANGED <<log, sleeps>>
    /\ UNCHANGED <<fs, fs0, outcome, exc, url, deadline, container, auth_vars>>

\* lines 22-27: one requests.get and what follows from its result
wait_for_get ==
    /\ pc = "L23"
    /\ \E r \in Responses, d \in GetDurations :
        /\ now' = now + d
        /\ attempts' = attempts + 1
        /\ resp' = <<r>>
        /\ all_raised' = (all_raised /\ r.kind = "exc")
        /\ last_raised' = IF r.kind = "exc" THEN attempts + 1 ELSE last_raised
        /\ IF r.kind = "resp" /\ status_ok(r.status)
           THEN /\ pc' = wait_for_return_pc(url)
                /\ log' = Append(log, Event("return wait_for", url, 0))
                /\ UNCHANGED last_err
           ELSE /\ pc' = "L28"
                /\ last_err' = next_last_err(r, last_err, attempts + 1)
                /\ UNCHANGED log
    /\ UNCHANGED <<fs, fs0, outcome, exc, url, deadline, sleeps, container, auth_vars>>

\* line 28: time.sleep(2)
wait_for_sleep ==
    /\ pc = "L28"
    /\ now' = now + POLL_INTERVAL
    /\ sleeps' = sleeps + 1
    /\ pc' = "L21"
    /\ UNCHANGED <<fs, fs0, log, outcome, exc, url, deadline, last_err, resp,
                   attempts, all_raised, last_raised, container,
                   auth_vars>>

\* the polls outside the try: the timeout leaves the test at once
wait_for_raise_no_finally ==
    /\ pc = "L29"
    /\ exc' = <<[type |-> "TimeoutError", url |-> url, last_err |-> last_err]>>
    /\ log' = Append(log, Event("raise wait_for", url, 1))
    /\ pc' = "done"
    /\ outcome' = "TimeoutError"
    /\ UNCHANGED <<fs, fs0, url, now, deadline, last_err, resp,
                   attempts, sleeps, all_raised, last_raised, container,
                   auth_vars>>

\* line 29: raise TimeoutError(...{last_err}); both calls are inside the try
wait_for_raise ==
    /\ pc = "L29"
    /\ exc' = <<[type |-> "TimeoutError", url |-> url, last_err |-> last_err]>>
    /\ log' = Append(log, Event("raise wait_for", url, 1))
    /\ pc' = "L66"
    /\ UNCHANGED <<fs, fs0, outcome, url, now, deadline, last_err, resp,
                   attempts, sleeps, all_raised, last_raised, container,
                   auth_vars>>

\* line 66: finally: subprocess.run(["docker", "rm", "-f", CONTAINER_NAME], check=False)
smoke_teardown_rm ==
    /\ pc = "L66"
    /\ \E rc \in ExitCodes :
        /\ log' = Append(log, Event("docker", "rm", rc))
        /\ container' = docker_rm(container, rc)
        /\ IF unchecked_raises(rc)
           THEN pc' = "done" /\ outcome' = "CalledProcessError"
           ELSE pc' = "L67" /\ UNCHANGED outcome
    /\ UNCHANGED <<fs, fs0, exc, url, now, deadline, last_err, resp,
                   attempts, sleeps, all_raised, last_raised,
                   auth_vars>>

\* line 67: subprocess.run(["docker", "rmi", IMAGE_TAG], check=False); then the
\* finally block ends: the exception in flight is re-raised, or the test passes
smoke_teardown_rmi ==
    /\ pc = "L67"
    /\ \E rc \in ExitCodes :
        /\ log' = Append(log, Event("docker", "rmi", rc))
        /\ outcome' = IF unchecked_raises(rc) THEN "CalledProcessError"
                      ELSE IF exc # None THEN exc[1].type
                      ELSE "passed"
    /\ pc' = "done"
    /\ UNCHANGED <<fs, fs0, exc, url, now, deadline, last_err, resp,
                   attempts, sleeps, all_raised, last_raised, container,
                   auth_vars>>

(***************************************************************************)
(* Specifications                                                          *)
(***************************************************************************)
\* the project root when the test starts: each file present or not
InitialFs ==
    { [f \in d |-> IF f = ENV_FILE THEN e ELSE t] :
        d \in SUBSET {ENV_FILE, TEMPLATE}, e \in EnvContents, t \in TemplateContents }

smoke_idle ==
    /\ pc = "L37"
    /\ log = <<>>
    /\ outcome = "none"
    /\ exc = None
    /\ url = ""
    /\ now = 0
    /\ deadline = 0
    /\ last_err = None
    /\ resp = None
    /\ attempts = 0
    /\ sleeps = 0
    /\ all_raised = TRUE
    /\ last_raised = 0

auth_idle ==
    /\ auth_pc = [c \in Callers |-> "idle"]
    /\ auth_arg = [c \in Callers |-> None]
    /\ auth_ret = [c \in Callers |-> None]

Init ==
    /\ fs \in InitialFs
    /\ fs0 = fs
    /\ container \in {"none", "exited", "running"}
    /\ smoke_idle
    /\ environ = <<>>
    /\ auth_idle

Next ==
    \/ smoke_env_exists
    \/ smoke_template_exists
    \/ smoke_copy_template
    \/ smoke_build
    \/ smoke_preclean
    \/ smoke_run
    \/ smoke_wait_health
    \/ smoke_wait_docs
    \/ wait_for_loop
    \/ wait_for_get
    \/ wait_for_sleep
    \/ wait_for_raise
    \/ smoke_teardown_rm
    \/ smoke_teardown_rmi
    \/ container_exits

Spec == Init /\ [][Next]_vars

\* the test is one sequential thread: the statement it has reached is executed;
\* requests.get returns or raises within its timeout and time.sleep returns
SpecLive ==
    /\ Spec
    /\ WF_vars(wait_for_loop)
    /\ WF_vars(wait_for_get)
    /\ WF_vars(wait_for_sleep)
    /\ WF_vars(wait_for_raise)

InitAuth ==
    /\ fs = <<>>
    /\ fs0 = fs
    /\ container = "none"
    /\ smoke_idle
    /\ environ \in {<<>>} \cup {[k \in {DEV_USER_ID} |-> v] : v \in EnvValues}
    /\ auth_idle

auth_call_any == \E c \in Callers, a \in Credentials : auth_call(c, a) /\ UNCHANGED smoke_vars
get_current_user_any == \E c \in Callers : get_current_user(c) /\ UNCHANGED smoke_vars
auth_done_any == \E c \in Callers : auth_done(c) /\ UNCHANGED smoke_vars
setenv_any == \E v \in EnvValues : setenv(v) /\ UNCHANGED smoke_vars
unsetenv_any == unsetenv /\ UNCHANGED smoke_vars

NextAuth ==
    \/ auth_call_any
    \/ get_current_user_any
    \/ auth_done_any
    \/ setenv_any
    \/ unsetenv_any

SpecAuth == InitAuth /\ [][NextAuth]_vars

TypeOK ==
    /\ pc \in {"L37", "L39", "L41", "L44", "L47", "L50", "L63", "L64",
               "L21", "L23", "L28", "L29", "L66", "L67", "done"}
    /\ outcome \in {"none", "passed", "FileNotFoundError", "CalledProcessError", "TimeoutError"}
    /\ now \in Nat /\ deadline \in Nat /\ attempts \in Nat /\ sleeps \in Nat
    /\ Len(last_err) <= 1 /\ Len(resp) <= 1 /\ Len(exc) <= 1
    /\ all_raised \in BOOLEAN
    /\ last_raised \in Nat
    /\ container \in {"none", "running", "exited"}
    /\ DOMAIN environ \subseteq {DEV_USER_ID}
    /\ auth_pc \in [Callers -> {"idle", "L11", "returned", "raised"}]

(***************************************************************************)
(* Reading the log                                                         *)
(***************************************************************************)
IsDocker(i, sub) == log[i].ev = "docker" /\ log[i].arg = sub
IsFile(i) == log[i].ev \in {"exists", "read_text", "write_text"}
IsPollEnd(i) == log[i].ev \in {"return wait_for", "raise wait_for"}
Indices(sub) == {i \in 1..Len(log) : IsDocker(i, sub)}
BuildSucceeded == \E i \in Indices("build") : log[i].rc = 0
BuildFailed == \E i \in Indices("build") : log[i].rc # 0
RunFailed == \E i \in Indices("run") : log[i].rc # 0
ReachedPolling == \E i \in 1..Len(log) : log[i] = Event("call wait_for", "/health", 0)
Returned(u) == \E i \in 1..Len(log) : log[i] = Event("return wait_for", u, 0)
InWaitFor == pc \in {"L21", "L23", "L28", "L29"}
\* the toolchain subcommands issued after polling ended, in order
AfterPolling ==
    LET ends == {i \in 1..Len(log) : IsPollEnd(i)}
        last == CHOOSE i \in ends : \A j \in ends : j <= i
    IN  IF ends = {} THEN <<>>
        ELSE [k \in 1..(Len(log) - last) |-> log[last + k].arg]

(***************************************************************************)
(* C1: on every exit path after a successful image build, a removal of the *)
(* container and a removal of the image have been attempted when the test  *)
(* ends, also when the container start exits non-zero or polling raises.   *)
(* Stated as the claim has it; the code leaves the test at line 50 without *)
(* any removal when docker run fails.                                      *)
(***************************************************************************)
C1_ReleasedOnEveryExit ==
    (pc = "done" /\ BuildSucceeded) =>
        /\ \E i \in Indices("rmi") : \A b \in Indices("build") : b < i
        /\ \E i \in Indices("rm") : \A r \in Indices("run") : r < i

(***************************************************************************)
(* C2: in a run that reached the polling phase, what is issued after       *)
(* polling ended is exactly one container removal followed by exactly one  *)
(* image removal, whether both polls returned or one of them raised.       *)
(***************************************************************************)
C2_TeardownExactlyOnce ==
    /\ (ReachedPolling /\ pc = "done") =>
            /\ AfterPolling = <<"rm", "rmi">>
            /\ Cardinality(Indices("rmi")) = 1
    /\ (ReachedPolling /\ InWaitFor) => Indices("rmi") = {}
    /\ (ReachedPolling /\ pc = "L66") => AfterPolling = <<>>
    /\ (ReachedPolling /\ pc = "L67") => AfterPolling = <<"rm">>

C2_Witness ==
    /\ pc = "done"
    /\ exc # None
    /\ url = "/docs"
    /\ Returned("/health")

(***************************************************************************)
(* C3: every call of get_current_user returns exactly the record           *)
(* {identity: v}, v being the value of DEV_USER_ID when the body runs, or  *)
(* "dev-user" when it is unset then, whatever the credential is.           *)
(***************************************************************************)
C3_IdentityFromEnviron ==
    [][\A c \in Callers :
          (auth_pc[c] = "L11" /\ auth_pc'[c] = "returned") =>
              auth_ret'[c] = <<[identity |-> IF DEV_USER_ID \in DOMAIN environ
                                             THEN environ[DEV_USER_ID]
                                             ELSE "dev-user"]>>]_vars

C3_Witness ==
    /\ auth_pc[1] = "returned" /\ auth_arg[1] = <<"%%garbage">>
    /\ auth_ret[1] = <<[identity |-> ""]>>
    /\ auth_pc[2] = "returned" /\ auth_arg[2] = None
    /\ auth_ret[2] = <<[identity |-> "dev-user"]>>
    /\ environ = <<>>

(***************************************************************************)
(* C4: when neither the environment file nor the template exists at the    *)
(* start, the test ends with the missing-template error and no toolchain   *)
(* command is ever invoked.                                                *)
(***************************************************************************)
C4_MissingTemplate ==
    (ENV_FILE \notin DOMAIN fs0 /\ TEMPLATE \notin DOMAIN fs0) =>
        /\ \A i \in 1..Len(log) : log[i].ev # "docker"
        /\ pc \in {"L37", "L39", "done"}
        /\ pc = "done" => outcome = "FileNotFoundError"
        /\ outcome \in {"none", "FileNotFoundError"}

C4_Witness ==
    /\ fs0 = <<>>
    /\ pc = "done"
    /\ outcome = "FileNotFoundError"

(***************************************************************************)
(* C5: when the environment file exists at the start, its content is never *)
(* changed and the template is neither checked nor read, whether or not    *)
(* the template exists.                                                    *)
(***************************************************************************)
C5_ExistingEnvUntouched ==
    (ENV_FILE \in DOMAIN fs0) =>
        /\ ENV_FILE \in DOMAIN fs /\ fs[ENV_FILE] = fs0[ENV_FILE]
        /\ \A i \in 1..Len(log) : log[i].arg # TEMPLATE
        /\ \A i \in 1..Len(log) : log[i].ev # "write_text"

C5_Witness ==
    /\ ENV_FILE \in DOMAIN fs0
    /\ TEMPLATE \in DOMAIN fs0
    /\ fs0[TEMPLATE] # fs0[ENV_FILE]
    /\ pc = "L44"

(***************************************************************************)
(* C6: a polling call returns at the first attempt answered with a status  *)
(* below 500: while the call is still in its loop no such answer has been  *)
(* seen, and the attempt that sees one returns at once, with no further    *)
(* GET and no further sleep, whatever the earlier attempts did.            *)
(***************************************************************************)
C6_ReturnsOnFirstSuccess ==
    /\ [](InWaitFor => (resp = None \/ resp[1].kind = "exc" \/ resp[1].status >= 500))
    /\ [][(attempts' = attempts + 1 /\ resp'[1].kind = "resp" /\ resp'[1].status < 500) =>
            /\ ~InWaitFor'
            /\ sleeps' = sleeps
            /\ log' = Append(log, Event("return wait_for", url, 0))]_vars
    /\ [][(~InWaitFor /\ UNCHANGED url) => UNCHANGED <<attempts, sleeps>>]_vars

C6_Witness ==
    /\ pc = "L64"
    /\ attempts = 3
    /\ last_err = <<1>>
    /\ resp = <<[kind |-> "resp", status |-> 499]>>

(***************************************************************************)
(* C7: a polling call all of whose attempts raised until the deadline      *)
(* elapsed raises a timeout error, and the error the timeout carries is    *)
(* the one of the most recent attempt.                                     *)
(***************************************************************************)
C7_TimeoutCarriesLastError ==
    /\ (pc = "L29" /\ all_raised /\ attempts > 0) => last_err = <<attempts>>
    /\ (pc \in {"L66", "L67", "done"} /\ ReachedPolling /\ all_raised /\ attempts > 0) =>
            /\ exc = <<[type |-> "TimeoutError", url |-> url, last_err |-> <<attempts>>]>>
            /\ pc = "done" => outcome = "TimeoutError"

C7_Witness ==
    /\ pc = "L66"
    /\ url = "/health"
    /\ all_raised
    /\ attempts >= 3
    /\ now >= HEALTH_TIMEOUT

(***************************************************************************)
(* C8: the steps run strictly in the order environment materialization,    *)
(* image build, pre-clean, container start, health polling, docs polling,  *)
(* teardown; a step starts only when the one before it has finished, and   *)
(* /docs is polled only after the health poll returned.                    *)
(***************************************************************************)
\* the step an operation of the log belongs to; a container removal is the
\* pre-clean before the container start and teardown after it
StepRank(i) ==
    IF IsFile(i) THEN 1
    ELSE IF IsDocker(i, "build") THEN 2
    ELSE IF IsDocker(i, "rm") THEN (IF \E j \in Indices("run") : j < i THEN 7 ELSE 3)
    ELSE IF IsDocker(i, "run") THEN 4
    ELSE IF IsDocker(i, "rmi") THEN 8
    ELSE IF log[i].arg = "/health" THEN 5
    ELSE 6

Ranks == {StepRank(i) : i \in 1..Len(log)}

C8_StrictSequence ==
    \* the steps appear in order, none twice
    /\ \A i, j \in 1..Len(log) : i < j => StepRank(i) <= StepRank(j)
    /\ \A i, j \in 1..Len(log) :
          (i < j /\ StepRank(i) = StepRank(j)) => StepRank(i) \in {1, 5, 6}
    \* a step is reached through all the steps before it
    /\ \A r \in Ranks : r \in 2..6 => (r - 1) \in Ranks
    /\ 7 \in Ranks => 5 \in Ranks
    /\ 8 \in Ranks => 7 \in Ranks
    /\ (7 \in Ranks /\ Returned("/health")) => 6 \in Ranks
    \* the toolchain steps before polling have succeeded, or were tolerated
    /\ \A i \in 1..Len(log) :
          (i < Len(log) /\ log[i].ev = "docker" /\ log[i].arg \in {"build", "run"}) =>
              log[i].rc = 0
    \* a poll is over before anything else is done
    /\ \A i \in 1..Len(log) :
          log[i].ev = "call wait_for" =>
              IF i = Len(log) THEN InWaitFor /\ url = log[i].arg
              ELSE IsPollEnd(i + 1) /\ log[i + 1].arg = log[i].arg
    /\ InWaitFor => (log # <<>> /\ log[Len(log)].ev = "call wait_for")
    \* /docs only after /health returned
    /\ \A i \in 1..Len(log) :
          log[i] = Event("call wait_for", "/docs", 0) =>
              \E j \in 1..(i - 1) : log[j] = Event("return wait_for", "/health", 0)
    /\ (InWaitFor /\ url = "/docs") => Returned("/health")
    \* the test passes only with every step done
    /\ outcome = "passed" => Ranks = 1..8

C8_Witness ==
    /\ pc = "done"
    /\ outcome = "passed"
    /\ ENV_FILE \notin DOMAIN fs0
    /\ Len(log) = 13

(***************************************************************************)
(* C9: a non-zero exit of docker build or of docker run aborts the test at *)
(* once: the failed command was invoked once, nothing follows a failed     *)
(* build (no pre-clean, no run, no GET) and no GET follows a failed run.   *)
(***************************************************************************)
C9_FatalToolchainFailure ==
    /\ BuildFailed =>
          /\ Cardinality(Indices("build")) = 1
          /\ Indices("rm") = {} /\ Indices("run") = {} /\ Indices("rmi") = {}
          /\ ~ReachedPolling /\ attempts = 0
          /\ pc = "done" /\ outcome = "CalledProcessError"
    /\ RunFailed =>
          /\ Cardinality(Indices("run")) = 1
          /\ ~ReachedPolling /\ attempts = 0
          /\ pc = "done" /\ outcome = "CalledProcessError"

C9_Witness ==
    /\ RunFailed
    /\ BuildSucceeded
    /\ pc = "done"

(***************************************************************************)
(* C10: a failure of a pre-clean or teardown command is discarded: after a *)
(* failed pre-clean the container start is still attempted, after a failed *)
(* container removal in teardown the image removal is still attempted, and *)
(* the outcome is decided by the polls alone: passed when both returned,   *)
(* the polling timeout otherwise.                                          *)
(***************************************************************************)
C10_CleanupFailuresDiscarded ==
    /\ \A i \in Indices("rm") :
          log[i].rc # 0 =>
              IF i = Len(log) THEN pc \in {"L50", "L67"}
              ELSE IF StepRank(i) = 3 THEN IsDocker(i + 1, "run")
              ELSE IsDocker(i + 1, "rmi")
    /\ (ReachedPolling /\ pc = "done") =>
          /\ Indices("rmi") # {}
          /\ outcome = IF Returned("/health") /\ Returned("/docs")
                       THEN "passed" ELSE "TimeoutError"

C10_Witness ==
    /\ pc = "done"
    /\ outcome = "passed"
    /\ \A i \in Indices("rm") \cup Indices("rmi") : log[i].rc # 0
    /\ Cardinality(Indices("rm")) = 2


(***************************************************************************)
(* C11: get_current_user never fails: for every credential and every state *)
(* of the environment a call that has been entered can run, and it ends by *)
(* returning a record with the single field identity, never by raising.    *)
(***************************************************************************)
C11_NeverRaises ==
    \A c \in Callers :
        /\ auth_pc[c] # "raised"
        /\ auth_pc[c] = "L11" => ENABLED get_current_user(c)
        /\ auth_pc[c] = "returned" =>
              /\ Len(auth_ret[c]) = 1
              /\ DOMAIN auth_ret[c][1] = {"identity"}
              /\ auth_ret[c][1].identity \in EnvValues \cup {"dev-user"}

C11_Witness ==
    /\ auth_pc[1] = "returned"
    /\ auth_arg[1] = <<"">>
    /\ environ = <<>>
    /\ auth_pc[2] = "idle"

(***************************************************************************)
(* C17: get_current_user writes nothing: a call leaves the environment and *)
(* the other callers' arguments and results as they were, so however calls *)
(* interleave with each other and with changes of the environment, each    *)
(* returns the record it would return alone against the environment it     *)
(* read.                                                                   *)
(***************************************************************************)
C17_NoSharedState ==
    [][\A c \in Callers :
          (auth_pc[c] = "L11" /\ auth_pc'[c] # "L11") =>
              /\ environ' = environ
              /\ \A o \in Callers \ {c} :
                    /\ auth_pc'[o] = auth_pc[o]
                    /\ auth_arg'[o] = auth_arg[o]
                    /\ auth_ret'[o] = auth_ret[o]
              /\ auth_arg'[c] = auth_arg[c]
              /\ auth_pc'[c] = "returned"
              /\ auth_ret'[c] = <<[identity |-> IF environ = <<>> THEN "dev-user"
                                                ELSE environ[DEV_USER_ID]]>>]_vars

\* two calls in flight at once, the environment changed between their reads
C17_Witness ==
    /\ auth_pc[1] = "returned" /\ auth_ret[1] = <<[identity |-> "alice"]>>
    /\ auth_pc[2] = "returned" /\ auth_ret[2] = <<[identity |-> "dev-user"]>>
    /\ auth_arg[1] = auth_arg[2]
    /\ environ = [k \in {DEV_USER_ID} |-> ""]

(***************************************************************************)
(* C12: health polling takes place while the container started by line 50  *)
(* is running: docker run returns with the container still running, and    *)
(* the first GET to /health is issued before that container has exited.    *)
(* Stated as the claim has it; the run invocation has no -d, so docker run *)
(* returns only once the container has exited.                             *)
(***************************************************************************)
C12_PolledWhileRunning ==
    /\ pc = "L63" => container = "running"
    /\ (pc = "L23" /\ url = "/health" /\ attempts = 0) => container = "running"

(***************************************************************************)
(* C13, as stated: when a polling call times out, the error it reports is  *)
(* that of its most recent failed attempt, be it an exception or a status  *)
(* of 500 or above, and it reports nothing only if no attempt was made.    *)
(***************************************************************************)
C13_ReportsLastFailedAttempt ==
    (pc = "L66" /\ exc # None) =>
        exc[1].last_err = IF attempts > 0 THEN <<attempts>> ELSE None

(***************************************************************************)
(* C13, amended: answers of 500 or above and raised exceptions are both    *)
(* absorbed and retried, but only raised exceptions are retained: a        *)
(* timeout reports the error of the most recent attempt that raised,       *)
(* whatever statuses came after it, and nothing when no attempt raised.    *)
(***************************************************************************)
C13_ReportsLastRaised ==
    /\ [][(attempts' = attempts + 1 /\
            (resp'[1].kind = "exc" \/ resp'[1].status >= 500)) =>
               (pc' = "L28" /\ outcome' = outcome /\ exc' = exc)]_vars
    /\ [](InWaitFor =>
            last_err = IF last_raised = 0 THEN None ELSE <<last_raised>>)
    /\ []((pc \in {"L66", "L67", "done"} /\ exc # None) =>
            /\ exc[1].type = "TimeoutError"
            /\ exc[1].last_err = IF last_raised = 0 THEN None ELSE <<last_raised>>)

\* the timeout follows exceptions and then answers of 500 and above
C13_Witness ==
    /\ pc = "L66"
    /\ exc # None
    /\ last_raised = 2
    /\ attempts > 4
    /\ resp = <<[kind |-> "resp", status |-> 503]>>


(***************************************************************************)
(* C14: every polling call terminates, given that each GET returns or      *)
(* fails within its timeout and that the clock advances: it leaves the     *)
(* loop by returning on an answer below 500 or by raising the timeout, it  *)
(* starts no GET once the deadline (90 s for /health, 30 s for /docs) has  *)
(* passed, and it makes at most deadline/2 attempts.                       *)
(***************************************************************************)
C14_PollingTerminates ==
    /\ InWaitFor ~> ~InWaitFor
    /\ [][(InWaitFor /\ ~InWaitFor') =>
            /\ log' # log
            /\ log'[Len(log')] \in {Event("return wait_for", url, 0),
                                    Event("raise wait_for", url, 1)}
            /\ log'[Len(log')].rc = 0 <=> (resp'[1].kind = "resp" /\ resp'[1].status < 500)
            /\ log'[Len(log')].rc = 1 <=> now >= deadline]_vars
    /\ [](InWaitFor => deadline = IF url = "/health" THEN 90 ELSE 30)
    /\ [](pc = "L23" => now < deadline)
    /\ [][attempts' = attempts + 1 => now < deadline]_vars
    /\ [](2 * attempts <= deadline)

\* the most attempts a health poll can make: one every two seconds
C14_Witness ==
    /\ pc = "L29"
    /\ url = "/health"
    /\ attempts = 45
    /\ sleeps = 45

(***************************************************************************)
(* C15: a polling call that succeeds on its n-th attempt has slept exactly *)
(* n-1 times, 2 seconds each: once after every failed attempt and not      *)
(* after the successful one.                                               *)
(***************************************************************************)
C15_SleepsBetweenAttempts ==
    \* a sleep is 2 seconds long and follows a failed attempt
    /\ [][sleeps' # sleeps =>
            \/ sleeps' = 0 /\ attempts' = 0
            \/ /\ sleeps' = sleeps + 1
               /\ now' = now + 2
               /\ attempts' = attempts
               /\ resp # None
               /\ (resp[1].kind = "exc" \/ resp[1].status >= 500)]_vars
    \* every failed attempt is followed by its sleep before the next one
    /\ [](pc \in {"L21", "L23", "L29"} => sleeps = attempts)
    /\ [](pc = "L28" => sleeps = attempts - 1)
    \* the call has returned: n attempts, n-1 sleeps
    /\ []((log # <<>> /\ log[Len(log)].ev = "return wait_for") =>
            (attempts >= 1 /\ sleeps = attempts - 1))

\* success on the third attempt after two connection refusals: two sleeps
C15_Witness ==
    /\ pc = "L64"
    /\ attempts = 3
    /\ last_raised = 2
    /\ all_raised = FALSE
    /\ last_err = <<2>>
    /\ resp = <<[kind |-> "resp", status |-> 200]>>
    /\ sleeps = 2
    /\ now = 4
====
